---- MODULE Spec2Model ----
(***************************************************************************)
(* BASTION detection-correlation engine.                                   *)
(*                                                                         *)
(*   - IntegrationEngine.correlate of the Caldera plugin                   *)
(*     (bastion/caldera/plugins/bastion/app/integration_engine.py):        *)
(*     per-link search, PID tightening, sort, confidence.                  *)
(*   - compute_coverage of the Wazuh application                           *)
(*     (Bas__wazuh/app/coverage.py) with the IntegrationEngine it imports  *)
(*     (Bas__wazuh/app/integration_engine.py): primary tier, coverage      *)
(*     fallback tier, detection rate.                                      *)
(*                                                                         *)
(* Python values are modelled as follows.  An optional value is a sequence *)
(* of length 0 (None) or 1.  A technique id is a sequence of characters,   *)
(* the empty one standing for None or ''.  A confidence is in tenths, a    *)
(* detection rate in hundredths of a percent.                              *)
(***************************************************************************)
EXTENDS Integers, Sequences, FiniteSets, TLC

VARIABLES
    engine,     \* which IntegrationEngine runs: "caldera" (plugin) or "wazuh"
    chain,      \* operation.chain handed to IntegrationEngine.correlate
    backend,    \* what the alert store answers to the search of each link
    results,    \* the list correlate builds, one entry per processed link
    searched,   \* indexes of the links for which client.search was called
    epc,        \* correlate: "idle" (not called), "running", "returned"
    operation,          \* compute_coverage's operation: chain and hint windows
    engine_available,   \* whether IntegrationEngine can be built and run
    store,              \* what the alert store answers to each range fetch
    pc,                 \* compute_coverage: where the call stands
    engine_result,      \* None, or the list engine.correlate returned
    counters,           \* attack_steps, detected_steps, total_matches
    detected_tids,      \* technique ids found in alerts
    representative_alerts,  \* insertion-ordered dict: key -> alert record
    fetches,            \* the range fetches issued, with the answers as the
                        \* program holds them after its loops
    report,             \* None, or the dict compute_coverage returned
    arg,        \* the argument a function applied on its own was called with
    ret,        \* what the successive applications of that function returned
    service,    \* BASTIONService: token, token_expiry, is_authenticated
    utcnow,     \* datetime.utcnow(), in minutes
    last_call   \* None, or the last _ensure_authenticated call: when, raised

engineVars == <<engine, chain, backend, results, searched, epc>>

coverageVars == <<operation, engine_available, store, pc, engine_result,
                  counters, detected_tids, representative_alerts, fetches,
                  report>>

fnVars == <<arg, ret>>

authVars == <<service, utcnow, last_call>>

vars == <<engine, chain, backend, results, searched, epc,
          operation, engine_available, store, pc, engine_result, counters,
          detected_tids, representative_alerts, fetches, report, arg, ret,
          service, utcnow, last_call>>

----------------------------------------------------------------------------
(* Bounds of the model *)

\* longest chain of the chain-level specification
MaxLinks == 2
\* most hits one search returns in the per-step specification
MaxHits == 2

----------------------------------------------------------------------------
(* Values *)

NoneV == <<>>

Some(x) == <<x>>

Truthy(opt) == opt # <<>>

\* BASTIONService.__init__: no token, not authenticated
ServiceNew ==
    /\ service = [token |-> NoneV, token_expiry |-> NoneV, is_authenticated |-> FALSE]
    /\ utcnow = 0
    /\ last_call = NoneV

T1059 == <<"T", "1", "0", "5", "9">>

T1082 == <<"T", "1", "0", "8", "2">>

\* str() of the process ids a Caldera link carries (int; 0 is Caldera's
\* "no pid recorded" default)
LinkPids == {0, 100}

str(n) == CASE n = 0 -> "0" [] n = 100 -> "100" [] n = 200 -> "200" [] n = 300 -> "300"

\* A raw timestamp is "None", an ISO-8601 string or a string that
\* datetime.fromisoformat rejects; a datetime is written as its ISO string.
\* datetime.fromisoformat(...).timestamp() of the ISO strings of the model
IsoEpoch == [s \in {"2024-01-01T00:00:00Z"} |-> 1704067200]

\* getattr(link, 'finish') or getattr(link, 'start') or getattr(link, 'decide')
FirstTruthy(vals) ==
    LET ok == {i \in DOMAIN vals : vals[i] # "None"}
    IN  IF ok = {} THEN "None"
        ELSE vals[CHOOSE i \in ok : \A j \in ok : i <= j]

\* _to_dt: None for None and for a string fromisoformat rejects
to_dt(value) ==
    IF value \in DOMAIN IsoEpoch THEN Some(IsoEpoch[value]) ELSE NoneV

----------------------------------------------------------------------------
(* IntegrationEngine (Caldera plugin): one link *)

\* (matched, match_type)
match_pid(link_pid, alert_pid, alert_ppid) ==
    IF link_pid = NoneV THEN <<FALSE, "None">>
    ELSE IF Truthy(alert_pid) /\ alert_pid[1] = str(link_pid[1]) THEN <<TRUE, "pid">>
    ELSE IF Truthy(alert_ppid) /\ alert_ppid[1] = str(link_pid[1]) THEN <<TRUE, "ppid">>
    ELSE <<FALSE, "None">>

\* calculate_confidence that looks for a ppid match first
calculate_confidence_ppid_first(matches, link_pid) ==
    IF matches = <<>> THEN 0
    ELSE LET pid_matches == {i \in DOMAIN matches : matches[i].pid_matched}
             direct_pid == \E i \in pid_matches : matches[i].pid_match_type = "pid"
             ppid_match == \E i \in pid_matches : matches[i].pid_match_type = "ppid"
             base_score == 5 + (IF pid_matches = {} THEN 0
                                ELSE IF ppid_match THEN 3
                                ELSE IF direct_pid THEN 4 ELSE 0)
         IN  IF base_score < 10 THEN base_score ELSE 10

\* tenths: 0.0, 0.5, 0.8, 0.9
calculate_confidence(matches, link_pid) ==
    IF matches = <<>> THEN 0
    ELSE LET pid_matches == {i \in DOMAIN matches : matches[i].pid_matched}
             direct_pid == \E i \in pid_matches : matches[i].pid_match_type = "pid"
             ppid_match == \E i \in pid_matches : matches[i].pid_match_type = "ppid"
             base_score == 5 + (IF pid_matches = {} THEN 0
                                ELSE IF direct_pid THEN 4
                                ELSE IF ppid_match THEN 3 ELSE 0)
         IN  IF base_score < 10 THEN base_score ELSE 10

\* _summarize_hit of one raw document: timestamp, first technique id found,
\* pid and ppid; pid_matched / pid_match_type are absent until correlate
\* annotates the hit, and every reader defaults them to False / None
summarize_hit(doc) ==
    [ts |-> doc.ts,
     mitre_id |-> IF doc.mitre = <<>> THEN <<>> ELSE doc.mitre[1],
     pid |-> doc.pid,
     ppid |-> doc.ppid,
     pid_matched |-> FALSE,
     pid_match_type |-> "None"]

\* the records _search returns: [] when client.search raises, else the
\* summarized hits
search(technique_id, ts_epoch, outcome) ==
    IF outcome.fail THEN <<>>
    ELSE [i \in DOMAIN outcome.hits |-> summarize_hit(outcome.hits[i])]

SelectSeqIdx(s, keep) ==
    LET F[i \in 0..Len(s)] ==
            IF i = 0 THEN <<>>
            ELSE IF i \in keep THEN Append(F[i - 1], s[i]) ELSE F[i - 1]
    IN  F[Len(s)]

\* sort key of correlate's matches.sort: (type != 'pid', type != 'ppid', ts)
KeyGroup(m) ==
    IF m.pid_match_type = "pid" THEN 0
    ELSE IF m.pid_match_type = "ppid" THEN 1 ELSE 2

\* m.get('@timestamp', '') is None for a hit without timestamp (the key is
\* there, its value is None); comparing None with a string raises TypeError.
\* Ordering the members of one key group needs a comparison between a None
\* and a string timestamp as soon as the group holds both.
SortRaises(ms) ==
    \E i, j \in DOMAIN ms :
        /\ KeyGroup(ms[i]) = KeyGroup(ms[j])
        /\ ms[i].ts = NoneV
        /\ ms[j].ts # NoneV

KeyLess(a, b) ==
    \/ KeyGroup(a) < KeyGroup(b)
    \/ /\ KeyGroup(a) = KeyGroup(b)
       /\ a.ts # NoneV /\ b.ts # NoneV
       /\ a.ts[1] < b.ts[1]

\* correlate without matches.sort: the matches stay in the order of the answer
SortMatches_answer_order(ms) == ms

\* list.sort is stable: ms[i] lands after the elements that are smaller and
\* after the equal ones that precede it
SortMatches(ms) ==
    LET pos(i) == Cardinality({j \in DOMAIN ms :
                      \/ KeyLess(ms[j], ms[i])
                      \/ (~KeyLess(ms[i], ms[j]) /\ j < i)}) + 1
    IN  [p \in DOMAIN ms |-> ms[CHOOSE i \in DOMAIN ms : pos(i) = p]]

Annotate(m, link_pid) ==
    LET r == match_pid(link_pid, m.pid, m.ppid)
    IN  [m EXCEPT !.pid_matched = r[1], !.pid_match_type = r[2]]

\* "if matches and link_pid": None and the int 0 are falsy
PidTruthy(link_pid) == link_pid # NoneV /\ link_pid[1] # 0

\* PidFilter that falls back to the loosely matched candidates when no
\* candidate is pid-matched
PidFilter_keep_loose(ann) ==
    LET kept == SelectSeqIdx(ann, {i \in DOMAIN ann : ann[i].pid_matched})
    IN  IF kept = <<>> THEN ann ELSE kept

\* when no candidate is pid-matched the candidates are all discarded
PidFilter(ann) ==
    SelectSeqIdx(ann, {i \in DOMAIN ann : ann[i].pid_matched})

\* the matches of one link after the search and the PID tightening;
\* an exception inside the inner try leaves matches = []
LinkMatches(link_pid, technique_id, ts_epoch, outcome) ==
    LET cands == search(technique_id, ts_epoch, outcome)
    IN  IF cands # <<>> /\ PidTruthy(link_pid)
        THEN LET ann == [i \in DOMAIN cands |-> Annotate(cands[i], link_pid)]
                 pid_filtered == PidFilter(ann)
             IN  IF SortRaises(pid_filtered) THEN <<>> ELSE SortMatches(pid_filtered)
        ELSE cands

\* ts_dt of a link
LinkTime(link) == to_dt(FirstTruthy(<<link.finish, link.start, link.decide>>))

\* IsSearchable that forgets the timestamp
IsSearchable_no_ts(link) == Truthy(link.technique_id)

\* "if technique_id and ts_epoch"
IsSearchable(link) ==
    /\ Truthy(link.technique_id)
    /\ Truthy(LinkTime(link))
    /\ LinkTime(link)[1] # 0

\* the dict correlate appends for one link (executed_at, paw and ability_name
\* are not modelled)
LinkResult(link, outcome) ==
    LET matches == IF IsSearchable(link)
                   THEN LinkMatches(link.pid, link.technique_id, LinkTime(link)[1], outcome)
                   ELSE <<>>
    IN  [link_id |-> link.id,
         technique_id |-> link.technique_id,
         detected |-> Len(matches) > 0,
         match_count |-> Len(matches),
         pid |-> link.pid,
         pid_match_count |-> Cardinality({i \in DOMAIN matches : matches[i].pid_matched}),
         confidence |-> calculate_confidence(matches, link.pid),
         matches |-> matches]

----------------------------------------------------------------------------
(* IntegrationEngine (Wazuh application): one link *)

\* the technique ids a document holds at one path, <<>> when the path is
\* absent: "mitre" is the nested rule.mitre.id, "data_mitre" the nested
\* data.mitre.id, "flat_data", "flat_rule" and "mitre_id" the flattened keys
\* 'data.mitre.id', 'rule.mitre.id' and 'mitre.id'
get(source, path) == IF path \in DOMAIN source THEN source[path] ELSE <<>>

\* _summarize_hit keeps no process id; 'mitre.id' is rule.mitre.id as found,
\* else the flattened 'mitre.id', else the flattened 'rule.mitre.id'
wz_summarize_hit(doc) ==
    [ts |-> doc.ts,
     mitre_id |-> IF get(doc, "mitre") # <<>> THEN doc.mitre
                  ELSE IF get(doc, "mitre_id") # <<>> THEN doc.mitre_id
                  ELSE get(doc, "flat_rule")]

\* [] when client.search raises
wz_search(technique_id, ts_epoch, outcome) ==
    IF outcome.fail THEN <<>>
    ELSE [i \in DOMAIN outcome.hits |-> wz_summarize_hit(outcome.hits[i])]

wz_LinkResult(link, outcome) ==
    LET matches == IF IsSearchable(link)
                   THEN wz_search(link.technique_id, LinkTime(link)[1], outcome)
                   ELSE <<>>
    IN  [link_id |-> link.id,
         technique_id |-> link.technique_id,
         detected |-> Len(matches) > 0,
         match_count |-> Len(matches),
         matches |-> matches]

----------------------------------------------------------------------------
(* Inputs of correlate *)

SeqsUpTo(S, n) == UNION {[1..k -> S] : k \in 0..n}

\* raw alert documents: '@timestamp', data.audit.pid, data.audit.ppid,
\* rule.mitre.id
StepDocs ==
    [ts : {NoneV, Some(1), Some(2)},
     pid : {NoneV, Some("100"), Some("200")},
     ppid : {NoneV, Some("100")},
     mitre : {<<T1059>>}]

ChainDocs ==
    [ts : {Some(1)},
     pid : {Some("100"), Some("200")},
     ppid : {Some("300")},
     mitre : {<<T1059>>}]

\* (finish, start, decide)
LinkTimes ==
    {<<"2024-01-01T00:00:00Z", "None", "None">>,
     <<"None", "None", "2024-01-01T00:00:00Z">>,
     <<"None", "None", "None">>,
     <<"garbage", "2024-01-01T00:00:00Z", "None">>}

MkLink(i, tech, times, pid) ==
    [id |-> i, technique_id |-> tech, finish |-> times[1], start |-> times[2],
     decide |-> times[3], pid |-> pid]

LinkShapes ==
    {MkLink(0, tech, times, pid) :
        tech \in {NoneV, T1059}, times \in LinkTimes,
        pid \in {NoneV} \cup {Some(p) : p \in LinkPids}}

NoAnswer == [fail |-> FALSE, hits |-> <<>>]

Answers(hitLists) ==
    {[fail |-> TRUE, hits |-> <<>>]} \cup {[fail |-> FALSE, hits |-> h] : h \in hitLists}

\* the search of a link that is not searchable is never issued
AnswersFor(link, hitLists) ==
    IF IsSearchable(link) THEN Answers(hitLists) ELSE {NoAnswer}

----------------------------------------------------------------------------
(* IntegrationEngine.correlate *)

\* correlate_link that gives up the whole correlation when a search fails
correlate_link_abort_on_failure ==
    /\ epc = "running"
    /\ Len(results) < Len(chain)
    /\ LET idx == Len(results) + 1
           link == chain[idx]
           failed == IsSearchable(link) /\ backend[idx].fail
       IN  /\ results' = IF failed THEN <<>>
                         ELSE Append(results,
                                 IF engine = "caldera" THEN LinkResult(link, backend[idx])
                                 ELSE wz_LinkResult(link, backend[idx]))
           /\ epc' = IF failed THEN "returned" ELSE epc
           /\ searched' = IF IsSearchable(link) THEN searched \cup {idx} ELSE searched
    /\ UNCHANGED <<engine, chain, backend>>
    /\ UNCHANGED coverageVars
    /\ UNCHANGED fnVars
    /\ UNCHANGED authVars

correlate_link ==
    /\ epc = "running"
    /\ Len(results) < Len(chain)
    /\ LET idx == Len(results) + 1
           link == chain[idx]
       IN  /\ results' = Append(results,
                 IF engine = "caldera" THEN LinkResult(link, backend[idx])
                 ELSE wz_LinkResult(link, backend[idx]))
           /\ searched' = IF IsSearchable(link) THEN searched \cup {idx} ELSE searched
    /\ UNCHANGED <<engine, chain, backend, epc>>
    /\ UNCHANGED coverageVars
    /\ UNCHANGED fnVars
    /\ UNCHANGED authVars

\* "return results"
correlate_return ==
    /\ epc = "running"
    /\ Len(results) = Len(chain)
    /\ epc' = "returned"
    /\ UNCHANGED <<engine, chain, backend, results, searched>>
    /\ UNCHANGED coverageVars
    /\ UNCHANGED fnVars
    /\ UNCHANGED authVars

NextEngine == correlate_link \/ correlate_return

\* no function is applied on its own
NoCall == arg = NoneV /\ ret = <<>>

\* compute_coverage is not running
CoverageIdle ==
    /\ operation = [chain |-> <<>>, hints |-> <<>>]
    /\ engine_available = TRUE
    /\ store = <<>>
    /\ pc = "idle"
    /\ engine_result = NoneV
    /\ counters = [attack_steps |-> 0, detected_steps |-> 0, total_matches |-> 0]
    /\ detected_tids = {}
    /\ representative_alerts = <<>>
    /\ fetches = <<>>
    /\ report = NoneV

\* the Caldera plugin's engine on one link, every list of at most MaxHits hits
InitStep ==
    /\ engine = "caldera"
    /\ \E l \in LinkShapes :
         /\ chain = <<[l EXCEPT !.id = 1]>>
         /\ backend \in {<<a>> : a \in AnswersFor(l, SeqsUpTo(StepDocs, MaxHits))}
    /\ results = <<>>
    /\ searched = {}
    /\ epc = "running"
    /\ CoverageIdle
    /\ NoCall
    /\ ServiceNew

SpecStep == InitStep /\ [][NextEngine]_vars

\* either engine on every chain of at most MaxLinks links
InitChain ==
    /\ engine \in {"caldera", "wazuh"}
    /\ \E n \in 0..MaxLinks :
         \E ls \in [1..n -> LinkShapes] :
            /\ chain = [i \in 1..n |-> [ls[i] EXCEPT !.id = i]]
            /\ backend \in {b \in [1..n -> Answers(SeqsUpTo(ChainDocs, 1))] :
                              \A i \in 1..n : b[i] \in AnswersFor(ls[i], SeqsUpTo(ChainDocs, 1))}
    /\ results = <<>>
    /\ searched = {}
    /\ epc = "running"
    /\ CoverageIdle
    /\ NoCall
    /\ ServiceNew

SpecChain == InitChain /\ [][NextEngine]_vars

----------------------------------------------------------------------------
(* Claims about IntegrationEngine.correlate *)

\* the documents the search of link i returned
Candidates(i) ==
    IF i \in searched /\ ~backend[i].fail THEN backend[i].hits ELSE <<>>

\* the link carries a process id (Caldera records 0 when it has none)
CarriesPid(link) == link.pid # NoneV /\ link.pid[1] # 0

\* the documents of docs whose pid or ppid is the pid of the link
PidMatchedDocs(link, docs) ==
    {k \in DOMAIN docs :
        \/ docs[k].pid = Some(str(link.pid[1]))
        \/ docs[k].ppid = Some(str(link.pid[1]))}

\* C1: a link that carries a process id and whose search returned no
\* candidate with that pid or ppid has match_count = 0 and detected = false,
\* whatever candidates the technique and the time window gave.
C1_NoLineageNotDetected ==
    \A i \in DOMAIN results :
        (CarriesPid(chain[i]) /\ PidMatchedDocs(chain[i], Candidates(i)) = {})
            => (results[i].match_count = 0 /\ ~results[i].detected)

\* C1 witness: two candidates came back, neither with the pid of the link.
C1_Witness ==
    /\ epc = "returned"
    /\ Len(results) = 1
    /\ CarriesPid(chain[1])
    /\ Len(Candidates(1)) = 2
    /\ PidMatchedDocs(chain[1], Candidates(1)) = {}
    /\ \E k \in DOMAIN Candidates(1) : Candidates(1)[k].pid = Some("200")
    /\ results[1].match_count = 0

\* C2: a link that carries a process id and whose search returned at least
\* one candidate with that pid or ppid keeps exactly those candidates, for
\* every candidate list (any pid, ppid, timestamp, present or absent):
\* match_count >= 1, detected, pid_match_count = match_count.
C2_PidMatchedSurvive ==
    \A i \in DOMAIN results :
        LET docs == Candidates(i)
            hit == PidMatchedDocs(chain[i], docs)
            r == results[i]
        IN  (CarriesPid(chain[i]) /\ hit # {})
                => /\ r.match_count = Cardinality(hit)
                   /\ r.match_count >= 1
                   /\ r.detected
                   /\ r.pid_match_count = r.match_count
                   /\ {<<r.matches[k].ts, r.matches[k].pid, r.matches[k].ppid>> :
                            k \in DOMAIN r.matches}
                        = {<<docs[k].ts, docs[k].pid, docs[k].ppid>> : k \in hit}

\* the link's timestamp by priority is absent or does not parse
LacksTimestamp(link) ==
    FirstTruthy(<<link.finish, link.start, link.decide>>) \notin DOMAIN IsoEpoch

----------------------------------------------------------------------------
(* compute_coverage: helpers *)

\* longest chain of an operation handed to compute_coverage
MaxSteps == 3
\* most alerts one range fetch returns
MaxAlerts == 1

t1059_lower == <<"t", "1", "0", "5", "9">>

t1082_lower == <<"t", "1", "0", "8", "2">>

\* the characters of the model in code-point order
Alphabet ==
    <<" ", "/", "0", "1", "2", "3", "4", "5", "6", "7", "8", "9",
      "A", "B", "C", "D", "E", "F", "G", "H", "I", "J", "K", "L", "M",
      "N", "O", "P", "Q", "R", "S", "T", "U", "V", "W", "X", "Y", "Z",
      "a", "b", "c", "d", "e", "f", "g", "h", "i", "j", "k", "l", "m",
      "n", "o", "p", "q", "r", "s", "t", "u", "v", "w", "x", "y", "z", "|">>

LowerCase ==
    <<"a", "b", "c", "d", "e", "f", "g", "h", "i", "j", "k", "l", "m",
      "n", "o", "p", "q", "r", "s", "t", "u", "v", "w", "x", "y", "z">>

UpperCase ==
    <<"A", "B", "C", "D", "E", "F", "G", "H", "I", "J", "K", "L", "M",
      "N", "O", "P", "Q", "R", "S", "T", "U", "V", "W", "X", "Y", "Z">>

Ord(c) == CHOOSE i \in DOMAIN Alphabet : Alphabet[i] = c

\* str < str
StrLess(a, b) ==
    \E k \in 1..(Len(a) + 1) :
        /\ k <= Len(b)
        /\ \A j \in 1..(k - 1) : a[j] = b[j]
        /\ (k = Len(a) + 1 \/ Ord(a[k]) < Ord(b[k]))

\* sorted(set of str)
sorted(S) ==
    LET pos(x) == Cardinality({y \in S : StrLess(y, x)}) + 1
    IN  [p \in 1..Cardinality(S) |-> CHOOSE x \in S : pos(x) = p]

\* str.strip()
strip(s) ==
    LET idx == {i \in DOMAIN s : s[i] # " "}
    IN  IF idx = {} THEN <<>>
        ELSE SubSeq(s, CHOOSE i \in idx : \A j \in idx : i <= j,
                       CHOOSE i \in idx : \A j \in idx : i >= j)

upper_char(c) ==
    IF \E i \in DOMAIN LowerCase : LowerCase[i] = c
    THEN UpperCase[CHOOSE i \in DOMAIN LowerCase : LowerCase[i] = c]
    ELSE c

\* str.upper()
upper(s) == [i \in DOMAIN s |-> upper_char(s[i])]

lower_char(c) ==
    IF \E i \in DOMAIN UpperCase : UpperCase[i] = c
    THEN LowerCase[CHOOSE i \in DOMAIN UpperCase : UpperCase[i] = c]
    ELSE c

\* str.lower()
lower(s) == [i \in DOMAIN s |-> lower_char(s[i])]

RECURSIVE remove_all(_, _)
\* str.replace(old, ''): every occurrence, left to right
remove_all(s, old) ==
    IF Len(s) < Len(old) THEN s
    ELSE IF SubSeq(s, 1, Len(old)) = old
         THEN remove_all(SubSeq(s, Len(old) + 1, Len(s)), old)
         ELSE <<s[1]>> \o remove_all(Tail(s), old)

TechniquePrefix == <<"T", "E", "C", "H", "N", "I", "Q", "U", "E", "/">>

\* the id values a document holds, in the order _mitre_ids_from_source reads
\* them: nested data.mitre.id and rule.mitre.id, then the flattened keys
SourceIds(source) ==
    get(source, "data_mitre") \o get(source, "mitre") \o get(source, "flat_data")
        \o get(source, "flat_rule") \o get(source, "mitre_id")

\* _mitre_ids_from_source: the values that look like a technique id,
\* stripped, upper-cased, 'TECHNIQUE/' removed
mitre_ids_from_source(source) ==
    LET vals == SourceIds(source)
        out == {vals[i] : i \in {j \in DOMAIN vals : vals[j] # <<>>}}
        looks == {tid \in out : strip(tid) # <<>> /\ upper_char(strip(tid)[1]) = "T"}
    IN  {remove_all(upper(strip(tid)), TechniquePrefix) : tid \in looks}

\* str(epoch seconds) of the epoch strings of the model, as the ISO string
\* of the datetime they denote
EpochIso == [s \in {"1704067200"} |-> "2024-01-01T00:00:00Z"]

\* _to_utc: the datetime (as its ISO string) of an ISO or epoch string;
\* None when it raises (TypeError for None, ValueError for other strings)
to_utc(value) ==
    IF value \in DOMAIN IsoEpoch THEN Some(value)
    ELSE IF value \in DOMAIN EpochIso THEN Some(EpochIso[value])
    ELSE NoneV

\* ts of _mk_link: finish or start or decide or executed_at
EntryTime(d) == FirstTruthy(<<d.finish, d.start, d.decide, d.executed_at>>)

\* _mk_link(d) raises
mk_link_raises(d) == to_utc(EntryTime(d)) = NoneV

\* _mk_link: the link object handed to the engine; process_id is not copied
mk_link(d) ==
    [id |-> d.id,
     technique_id |-> d.technique_id,
     finish |-> to_utc(EntryTime(d))[1],
     start |-> "None",
     decide |-> "None",
     pid |-> NoneV]

\* _extract_operation_techniques: the technique ids as the chain gives them
extract_operation_techniques(ch) ==
    {ch[i].technique_id : i \in {j \in DOMAIN ch : ch[j].technique_id # <<>>}}

\* alert['agent']['name'], None when the alert has no agent node
agent_name(alert) == IF "agent" \in DOMAIN alert THEN alert.agent ELSE NoneV

\* "nm = (agent.get('name') or '').strip().lower()"
normal_agent_name(alert) ==
    IF agent_name(alert) = NoneV THEN <<>> ELSE lower(strip(agent_name(alert)[1]))

\* the agent name after "if nm: agent['name'] = nm"
prepared_agent_name(alert) ==
    IF normal_agent_name(alert) # <<>> THEN Some(normal_agent_name(alert))
    ELSE agent_name(alert)

\* _prepare_alert: (record, tids)
prepare_alert(alert, fallback_tid) ==
    LET found == mitre_ids_from_source(alert)
        tids == IF found = {} /\ fallback_tid # <<>> THEN {fallback_tid} ELSE found
    IN  [record |-> [ts |-> alert.ts, technique_ids |-> sorted(tids),
                     agent |-> prepared_agent_name(alert)],
         tids |-> tids]

\* the caller's alert document after _prepare_alert(alert): "record" is a
\* shallow copy, so "agent" is the alert's own agent node and
\* "agent['name'] = nm" (line 169) writes into it
alert_after_prepare(alert) ==
    IF "agent" \in DOMAIN alert
    THEN [alert EXCEPT !.agent = prepared_agent_name(alert)]
    ELSE alert

\* _prepare_alert raises: "(source.get('rule') or {}).get('mitre')" of
\* _mitre_ids_from_source on a rule node that is a non-empty string
prepare_raises(alert) == "rule" \in DOMAIN alert /\ alert.rule # ""

\* some alert of the list makes _store_representative raise
store_alerts_raises(alerts) == \E j \in DOMAIN alerts : prepare_raises(alerts[j])

\* the fetched list after "for a in alerts: _store_representative(a, ...)":
\* every alert up to and including the first one that raises went through
\* _prepare_alert
alerts_after_store(alerts) ==
    [j \in DOMAIN alerts |->
        IF \E i \in 1..(j - 1) : prepare_raises(alerts[i]) THEN alerts[j]
        ELSE alert_after_prepare(alerts[j])]

\* the answer of a range fetch as the program holds it after its loop
answer_after_store(answer) ==
    [answer EXCEPT !.hits = alerts_after_store(answer.hits)]

\* keys of representative_alerts: "link:<id>", "tech:<ids joined by |>",
\* "alert:<n>"
LinkKey(id) == [kind |-> "link", id |-> id, techs |-> <<>>, n |-> 0]

TechKey(ids) == [kind |-> "tech", id |-> 0, techs |-> ids, n |-> 0]

AlertKey(n) == [kind |-> "alert", id |-> 0, techs |-> <<>>, n |-> n]

\* _store_representative that lets a later alert replace the one stored
\* under its key
store_representative_overwrite(acc, alert, key_hint, fallback_tid) ==
    LET p == prepare_alert(alert, fallback_tid)
        key == IF key_hint # NoneV THEN key_hint[1]
               ELSE IF p.record.technique_ids # <<>> THEN TechKey(p.record.technique_ids)
               ELSE AlertKey(Len(acc.reps))
        known == \E i \in DOMAIN acc.reps : acc.reps[i].key = key
    IN  [reps |-> IF known
                  THEN [i \in DOMAIN acc.reps |->
                           IF acc.reps[i].key = key
                           THEN [key |-> key, record |-> p.record]
                           ELSE acc.reps[i]]
                  ELSE Append(acc.reps, [key |-> key, record |-> p.record]),
         tids |-> acc.tids \cup p.tids]

\* _store_representative on acc = (representative_alerts, detected_tids);
\* key_hint is None or a key
store_representative(acc, alert, key_hint, fallback_tid) ==
    LET p == prepare_alert(alert, fallback_tid)
        key == IF key_hint # NoneV THEN key_hint[1]
               ELSE IF p.record.technique_ids # <<>> THEN TechKey(p.record.technique_ids)
               ELSE AlertKey(Len(acc.reps))
        known == \E i \in DOMAIN acc.reps : acc.reps[i].key = key
    IN  [reps |-> IF known THEN acc.reps
                  ELSE Append(acc.reps, [key |-> key, record |-> p.record]),
         tids |-> acc.tids \cup p.tids]

\* lines 250-263 for one result of the engine
analyse_result(acc, result) ==
    IF result.matches = <<>> THEN acc
    ELSE LET key_hint == IF result.link_id # 0 THEN Some(LinkKey(result.link_id)) ELSE NoneV
             first == store_representative(acc, result.matches[1], key_hint,
                                           result.technique_id)
             rest == UNION {prepare_alert(result.matches[k], result.technique_id).tids :
                               k \in 2..Len(result.matches)}
         IN  [reps |-> first.reps, tids |-> first.tids \cup rest]

\* lines 250-263
analyse_results(acc, rs) ==
    LET F[i \in 0..Len(rs)] ==
            IF i = 0 THEN acc ELSE analyse_result(F[i - 1], rs[i])
    IN  F[Len(rs)]

\* "for a in alerts: _store_representative(a, fallback_tid=...)"
store_alerts(acc, alerts, fallback_tid) ==
    LET F[i \in 0..Len(alerts)] ==
            IF i = 0 THEN acc
            ELSE store_representative(F[i - 1], alerts[i], NoneV, fallback_tid)
    IN  F[Len(alerts)]

\* round(n / d * 100.0, 2) in hundredths of a percent, d > 0
round_pct(n, d) == (2 * n * 10000 + d) \div (2 * d)

\* det_rate that never looks at the step counts
det_rate_technique_level(attack_steps, detected_steps, op_techniques, matched) ==
    IF op_techniques # {}
    THEN round_pct(Cardinality(matched), Cardinality(op_techniques))
    ELSE 0

\* det_rate that reports full coverage when nothing was to be detected
det_rate_vacuous_full(attack_steps, detected_steps, op_techniques, matched) ==
    IF attack_steps > 0 THEN round_pct(detected_steps, attack_steps)
    ELSE IF op_techniques # {}
         THEN round_pct(Cardinality(matched), Cardinality(op_techniques))
         ELSE 10000

\* lines 314-327
det_rate(attack_steps, detected_steps, op_techniques, matched) ==
    IF attack_steps > 0 THEN round_pct(detected_steps, attack_steps)
    ELSE IF op_techniques # {}
         THEN round_pct(Cardinality(matched), Cardinality(op_techniques))
         ELSE 0

\* undetected_set that subtracts nothing
undetected_set_all(op_techniques, matched) == op_techniques

\* "undetected = op_techniques - matched"
undetected_set(op_techniques, matched) == op_techniques \ matched

----------------------------------------------------------------------------
(* compute_coverage: inputs *)

RECURSIVE SeqProduct(_)
\* the sequences whose i-th element is drawn from the i-th set
SeqProduct(sets) ==
    IF sets = <<>> THEN {<<>>}
    ELSE {<<x>> \o r : x \in Head(sets), r \in SeqProduct(Tail(sets))}

\* a chain entry (dict) of the operation: times is
\* (finish, start, decide, executed_at)
MkEntry(i, tech, times, process_id) ==
    [id |-> i, technique_id |-> tech, finish |-> times[1], start |-> times[2],
     decide |-> times[3], executed_at |-> times[4], process_id |-> process_id]

\* entries of the operations whose primary tier is exercised
EntryShapes ==
    {MkEntry(0, T1059, <<"2024-01-01T00:00:00Z", "None", "None", "None">>, NoneV),
     MkEntry(0, T1059, <<"2024-01-01T00:00:00Z", "None", "None", "None">>, Some(100)),
     MkEntry(0, T1082, <<"None", "None", "None", "1704067200">>, NoneV),
     MkEntry(0, NoneV, <<"2024-01-01T00:00:00Z", "None", "None", "None">>, NoneV),
     MkEntry(0, T1082, <<"None", "None", "None", "None">>, NoneV),
     MkEntry(0, T1059, <<"garbage", "2024-01-01T00:00:00Z", "None", "None">>, NoneV)}

\* entries of the operations of the fallback specification
FallbackShapes ==
    {MkEntry(0, tech, <<"2024-01-01T00:00:00Z", "None", "None", "None">>, NoneV) :
        tech \in {T1059, T1082, t1059_lower}}

\* what a search for tech returns: nothing, an alert of another process
\* (pid 200, ppid 300), or that alert and one of process 100
CovHitLists(tech) ==
    LET other == [ts |-> Some(1), pid |-> Some("200"), ppid |-> Some("300"),
                  mitre |-> <<tech>>]
        own == [ts |-> Some(1), pid |-> Some("100"), ppid |-> Some("300"),
                mitre |-> <<tech>>]
    IN  {<<>>, <<other>>, <<other, own>>}

\* raw alerts a range fetch returns: '@timestamp' and rule.mitre.id
CovAlertDocs == [ts : {Some(1)}, mitre : {<<T1059>>}]

\* agent.name "Web" of a raw alert
Web == <<"W", "e", "b">>

\* raw alerts with '@timestamp', rule.mitre.id and agent.name; the last one
\* is a document whose rule node is a string, not an object
AlertDocs ==
    {[ts |-> Some(1), mitre |-> <<>>, agent |-> NoneV],
     [ts |-> Some(1), mitre |-> <<T1059>>, agent |-> Some(Web)],
     [ts |-> Some(1), mitre |-> <<t1082_lower>>, agent |-> NoneV],
     [ts |-> Some(1), mitre |-> <<>>, agent |-> NoneV, rule |-> "oops"]}

\* operation['_match_windows'], the technique of each window
CovHints == {<<>>, <<T1059>>}

FallbackHints == {<<>>, <<T1082>>}

----------------------------------------------------------------------------
(* compute_coverage *)

\* cov_start that counts the chain entries as attack steps before it gives up
\* the primary tier
cov_start_keeps_step_count ==
    /\ pc = "called"
    /\ IF engine_available
          /\ \A i \in DOMAIN operation.chain : ~mk_link_raises(operation.chain[i])
       THEN /\ chain' = [i \in DOMAIN operation.chain |-> mk_link(operation.chain[i])]
            /\ epc' = "running"
            /\ pc' = "correlating"
            /\ UNCHANGED counters
       ELSE /\ pc' = "fallback"
            /\ counters' = [counters EXCEPT !.attack_steps = Len(operation.chain)]
            /\ UNCHANGED <<chain, epc>>
    /\ UNCHANGED <<engine, backend, results, searched>>
    /\ UNCHANGED fnVars
    /\ UNCHANGED authVars
    /\ UNCHANGED <<operation, engine_available, store, engine_result,
                   detected_tids, representative_alerts, fetches, report>>

\* lines 200-243 and 264-266: build the engine and the link objects; an
\* exception (engine unavailable, _to_utc raising in _mk_link) leaves
\* engine_result = None
cov_start ==
    /\ pc = "called"
    /\ IF engine_available
          /\ \A i \in DOMAIN operation.chain : ~mk_link_raises(operation.chain[i])
       THEN /\ chain' = [i \in DOMAIN operation.chain |-> mk_link(operation.chain[i])]
            /\ epc' = "running"
            /\ pc' = "correlating"
       ELSE /\ pc' = "fallback"
            /\ UNCHANGED <<chain, epc>>
    /\ UNCHANGED <<engine, backend, results, searched>>
    /\ UNCHANGED fnVars
    /\ UNCHANGED authVars
    /\ UNCHANGED <<operation, engine_available, store, engine_result, counters,
                   detected_tids, representative_alerts, fetches, report>>

\* total_matches that counts the matches of the first step only
sum_match_count_first_step(rs) ==
    IF rs = <<>> THEN 0 ELSE rs[1].match_count

\* sum(int(r.get('match_count') or 0) for r in engine_result)
sum_match_count(rs) ==
    LET F[i \in 0..Len(rs)] ==
            IF i = 0 THEN 0 ELSE F[i - 1] + rs[i].match_count
    IN  F[Len(rs)]

\* lines 244-263: the engine returned
cov_aggregate ==
    /\ pc = "correlating"
    /\ epc = "returned"
    /\ engine_result' = Some(results)
    /\ counters' = [attack_steps |-> Len(results),
                    detected_steps |-> Cardinality({i \in DOMAIN results : results[i].detected}),
                    total_matches |-> sum_match_count(results)]
    /\ LET acc == analyse_results([reps |-> representative_alerts, tids |-> detected_tids],
                                  results)
       IN  /\ representative_alerts' = acc.reps
           /\ detected_tids' = acc.tids
    /\ pc' = "rate"
    /\ UNCHANGED engineVars
    /\ UNCHANGED fnVars
    /\ UNCHANGED authVars
    /\ UNCHANGED <<operation, engine_available, store, fetches, report>>

\* lines 274-296: one fetch per match window; fetch_alerts raising, or
\* _store_representative raising on a fetched alert, ends the call
cov_hint_fetch ==
    /\ pc = "fallback"
    /\ Len(fetches) < Len(operation.hints)
    /\ LET k == Len(fetches) + 1
           tech == operation.hints[k]
           answer == store[k]
           acc == store_alerts([reps |-> representative_alerts, tids |-> detected_tids],
                               answer.hits, tech)
       IN  /\ fetches' = Append(fetches, [kind |-> "window", tech |-> tech,
                                          answer |-> answer_after_store(answer)])
           /\ IF answer.fail \/ store_alerts_raises(answer.hits)
              THEN /\ pc' = "raised"
                   /\ UNCHANGED <<representative_alerts, detected_tids>>
              ELSE /\ pc' = pc
                   /\ representative_alerts' = acc.reps
                   /\ detected_tids' = acc.tids
    /\ UNCHANGED engineVars
    /\ UNCHANGED fnVars
    /\ UNCHANGED authVars
    /\ UNCHANGED <<operation, engine_available, store, engine_result, counters, report>>

\* cov_full_fetch that reads a failed fetch as "no alerts"
cov_full_fetch_absorbs_failure ==
    /\ pc = "fallback"
    /\ Len(fetches) = Len(operation.hints)
    /\ LET answer == store[Len(fetches) + 1]
           acc == store_alerts([reps |-> representative_alerts, tids |-> detected_tids],
                               answer.hits, NoneV)
       IN  /\ fetches' = Append(fetches, [kind |-> "range", tech |-> NoneV,
                                          answer |-> answer_after_store(answer)])
           /\ pc' = "rate"
           /\ representative_alerts' = acc.reps
           /\ detected_tids' = acc.tids
    /\ UNCHANGED engineVars
    /\ UNCHANGED fnVars
    /\ UNCHANGED authVars
    /\ UNCHANGED <<operation, engine_available, store, engine_result, counters, report>>

\* cov_full_fetch that leaves out the fetch over the whole operation when
\* match windows were fetched
cov_full_fetch_only_without_hints ==
    /\ pc = "fallback"
    /\ Len(fetches) = Len(operation.hints)
    /\ IF operation.hints # <<>>
       THEN /\ pc' = "rate"
            /\ UNCHANGED <<fetches, representative_alerts, detected_tids>>
       ELSE LET answer == store[Len(fetches) + 1]
                acc == store_alerts([reps |-> representative_alerts,
                                     tids |-> detected_tids], answer.hits, NoneV)
            IN  /\ fetches' = Append(fetches, [kind |-> "range", tech |-> NoneV,
                                               answer |-> answer_after_store(answer)])
                /\ IF answer.fail \/ store_alerts_raises(answer.hits)
                   THEN /\ pc' = "raised"
                        /\ UNCHANGED <<representative_alerts, detected_tids>>
                   ELSE /\ pc' = "rate"
                        /\ representative_alerts' = acc.reps
                        /\ detected_tids' = acc.tids
    /\ UNCHANGED engineVars
    /\ UNCHANGED fnVars
    /\ UNCHANGED authVars
    /\ UNCHANGED <<operation, engine_available, store, engine_result, counters, report>>

\* lines 298-308: the fetch over the whole operation; an exception ends the
\* call
cov_full_fetch ==
    /\ pc = "fallback"
    /\ Len(fetches) = Len(operation.hints)
    /\ LET answer == store[Len(fetches) + 1]
           acc == store_alerts([reps |-> representative_alerts, tids |-> detected_tids],
                               answer.hits, NoneV)
       IN  /\ fetches' = Append(fetches, [kind |-> "range", tech |-> NoneV,
                                          answer |-> answer_after_store(answer)])
           /\ IF answer.fail \/ store_alerts_raises(answer.hits)
              THEN /\ pc' = "raised"
                   /\ UNCHANGED <<representative_alerts, detected_tids>>
              ELSE /\ pc' = "rate"
                   /\ representative_alerts' = acc.reps
                   /\ detected_tids' = acc.tids
    /\ UNCHANGED engineVars
    /\ UNCHANGED fnVars
    /\ UNCHANGED authVars
    /\ UNCHANGED <<operation, engine_available, store, engine_result, counters, report>>

\* "op_techniques & detected_tids if op_techniques else set()"
matched_set(op_techniques, tids) ==
    IF op_techniques # {} THEN op_techniques \cap tids ELSE {}

\* lines 314-360: the rate and the report
cov_report ==
    /\ pc = "rate"
    /\ LET op_techniques == extract_operation_techniques(operation.chain)
           matched == matched_set(op_techniques, detected_tids)
           undetected == IF op_techniques # {}
                         THEN undetected_set(op_techniques, matched) ELSE {}
       IN  report' = Some(
               [attack_steps |-> counters.attack_steps,
                detected_steps |-> counters.detected_steps,
                total_alerts |-> Len(representative_alerts),
                total_matches |-> counters.total_matches,
                detection_rate |-> det_rate(counters.attack_steps, counters.detected_steps,
                                            op_techniques, matched),
                total_techniques |-> Cardinality(op_techniques),
                detected_techniques |-> Cardinality(matched),
                all_operation_techniques |-> sorted(op_techniques),
                all_detected_techniques |-> sorted(detected_tids),
                matched_techniques |-> sorted(matched),
                undetected_techniques |-> Cardinality(undetected),
                undetected_techniques_list |-> sorted(undetected),
                alerts_matched |-> [i \in DOMAIN representative_alerts |->
                                        representative_alerts[i].record]])
    /\ pc' = "done"
    /\ UNCHANGED engineVars
    /\ UNCHANGED fnVars
    /\ UNCHANGED authVars
    /\ UNCHANGED <<operation, engine_available, store, engine_result, counters,
                   detected_tids, representative_alerts, fetches>>

NextCoverage ==
    \/ cov_start
    \/ correlate_link
    \/ correlate_return
    \/ cov_aggregate
    \/ cov_hint_fetch
    \/ cov_full_fetch
    \/ cov_report

\* compute_coverage was called and has done nothing yet
CoverageCalled ==
    /\ engine = "wazuh"
    /\ chain = <<>>
    /\ results = <<>>
    /\ searched = {}
    /\ epc = "idle"
    /\ pc = "called"
    /\ engine_result = NoneV
    /\ counters = [attack_steps |-> 0, detected_steps |-> 0, total_matches |-> 0]
    /\ detected_tids = {}
    /\ representative_alerts = <<>>
    /\ fetches = <<>>
    /\ report = NoneV

\* every operation of at most MaxSteps entries, with the engine available or
\* not.  The answers to requests the call never makes are fixed: searches
\* when the primary tier cannot run, range fetches when it can.
InitCoverage ==
    /\ engine_available \in BOOLEAN
    /\ \E n \in 0..MaxSteps :
         \E es \in [1..n -> EntryShapes] :
            \E h \in CovHints :
               LET ch == [i \in 1..n |-> [es[i] EXCEPT !.id = i]]
                   runs == /\ engine_available
                           /\ \A i \in 1..n : ~mk_link_raises(ch[i])
               IN  /\ operation = [chain |-> ch, hints |-> h]
                   /\ backend \in
                        IF runs
                        THEN SeqProduct([i \in 1..n |->
                                 AnswersFor(mk_link(ch[i]), CovHitLists(ch[i].technique_id))])
                        ELSE {[i \in 1..n |-> NoAnswer]}
                   /\ store \in
                        IF runs
                        THEN {[k \in 1..(Len(h) + 1) |-> NoAnswer]}
                        ELSE [1..(Len(h) + 1) -> Answers(SeqsUpTo(CovAlertDocs, MaxAlerts))]
    /\ CoverageCalled
    /\ NoCall
    /\ ServiceNew

SpecCoverage == InitCoverage /\ [][NextCoverage]_vars

\* the steps of a call whose engine is unavailable
NextFallback ==
    \/ cov_start
    \/ cov_hint_fetch
    \/ cov_full_fetch
    \/ cov_report

\* the operations whose primary tier cannot run because the engine is
\* unavailable: every chain of at most MaxSteps entries, with and without a
\* match window, every answer of at most MaxAlerts alerts to each fetch
InitFallback ==
    /\ engine_available = FALSE
    /\ \E n \in 0..MaxSteps :
         \E es \in [1..n -> FallbackShapes] :
            \E h \in FallbackHints :
               /\ operation = [chain |-> [i \in 1..n |-> [es[i] EXCEPT !.id = i]],
                               hints |-> h]
               /\ backend = [i \in 1..n |-> NoAnswer]
               /\ store \in [1..(Len(h) + 1) -> Answers(SeqsUpTo(AlertDocs, MaxAlerts))]
    /\ CoverageCalled
    /\ NoCall
    /\ ServiceNew

SpecFallback == InitFallback /\ [][NextFallback]_vars

----------------------------------------------------------------------------
(* Claims about compute_coverage *)

Range(f) == {f[i] : i \in DOMAIN f}

\* the call returned a report built from the engine's results
IsPrimaryReport == report # NoneV /\ engine_result # NoneV

\* the call returned a report built from range fetches
IsFallbackReport == report # NoneV /\ engine_result = NoneV

\* the documents of docs whose pid or ppid is the process id of entry d
EntryPidDocs(d, docs) ==
    {k \in DOMAIN docs :
        \/ docs[k].pid = Some(str(d.process_id[1]))
        \/ docs[k].ppid = Some(str(d.process_id[1]))}

\* entry i carries a process id that no alert returned for it has
PidExcluded(i) ==
    /\ operation.chain[i].process_id # NoneV
    /\ EntryPidDocs(operation.chain[i], Candidates(i)) = {}

\* rate is n / d * 100 rounded to two decimals (in hundredths of a percent)
IsRoundedPct(rate, n, d) ==
    /\ 2 * (rate * d - 10000 * n) <= d
    /\ 2 * (10000 * n - rate * d) <= d

\* C3: the process id of a chain entry is honoured end to end: an entry
\* carrying a process id that no alert returned for it has as pid or ppid
\* gets match_count = 0 and detected = false, is not counted in
\* detected_steps, and a one-step operation of that kind reports
\* detection_rate = 0.0.
C3_ProcessIdHonoured ==
    /\ \A i \in DOMAIN results :
          (pc # "idle" /\ PidExcluded(i))
              => (results[i].match_count = 0 /\ ~results[i].detected)
    /\ IsPrimaryReport =>
          /\ report[1].detected_steps
                <= Cardinality({i \in DOMAIN operation.chain : ~PidExcluded(i)})
          /\ (Len(operation.chain) = 1 /\ PidExcluded(1))
                => report[1].detection_rate = 0

\* the timestamp of entry d (finish > start > decide > executed_at) is absent
\* or does not parse
BadTimestamp(d) ==
    EntryTime(d) \notin (DOMAIN IsoEpoch \cup DOMAIN EpochIso)

\* C5: with the engine available, a chain entry whose timestamp is absent or
\* unparseable never makes the call fail nor leave the primary tier: no
\* range fetch is issued, and the report counts every entry in attack_steps,
\* the bad entry as a non-detected step with empty matches.
C5_BadTimestampKept ==
    (/\ engine_available
     /\ pc # "idle"
     /\ \E i \in DOMAIN operation.chain : BadTimestamp(operation.chain[i]))
        => /\ pc # "raised"
           /\ fetches = <<>>
           /\ report # NoneV =>
                 /\ engine_result # NoneV
                 /\ report[1].attack_steps = Len(operation.chain)
                 /\ \A i \in DOMAIN operation.chain :
                       BadTimestamp(operation.chain[i])
                           => /\ ~engine_result[1][i].detected
                              /\ engine_result[1][i].matches = <<>>

\* C6: in a primary-tier report attack_steps is the number of chain entries,
\* detected_steps the number of results with detected = true, and
\* detection_rate is detected_steps / attack_steps x 100 rounded to two
\* decimals, whatever the matched and undetected technique sets are.
C6_PrimaryReport ==
    IsPrimaryReport =>
        LET r == report[1]
            rs == engine_result[1]
        IN  /\ r.attack_steps = Len(operation.chain)
            /\ r.detected_steps = Cardinality({i \in DOMAIN rs : rs[i].detected})
            /\ r.attack_steps > 0
                  => IsRoundedPct(r.detection_rate, r.detected_steps, r.attack_steps)

\* C6 witness: three steps, two of them detected: 66.67, while one of the
\* two declared techniques is matched.
C6_Witness ==
    /\ IsPrimaryReport
    /\ report[1].attack_steps = 3
    /\ report[1].detected_steps = 2
    /\ report[1].detection_rate = 6667
    /\ report[1].total_techniques = 2
    /\ report[1].detected_techniques = 1

\* C7: every report has 0 <= detection_rate <= 100, and detection_rate = 0
\* when a primary-tier report has attack_steps = 0 and when a fallback-tier
\* report is for an operation that declares no technique.
C7_RateBounds ==
    report # NoneV =>
        LET r == report[1]
        IN  /\ 0 <= r.detection_rate
            /\ r.detection_rate <= 10000
            /\ (engine_result # NoneV /\ r.attack_steps = 0) => r.detection_rate = 0
            /\ (/\ engine_result = NoneV
                /\ \A i \in DOMAIN operation.chain : operation.chain[i].technique_id = <<>>)
                  => r.detection_rate = 0

\* C7 witness: a fallback-tier report for a chain that declares no
\* technique, while the fetched alerts carry one.
C7_Witness ==
    /\ IsFallbackReport
    /\ operation.chain # <<>>
    /\ \A i \in DOMAIN operation.chain : operation.chain[i].technique_id = <<>>
    /\ report[1].all_detected_techniques # <<>>
    /\ report[1].detection_rate = 0

\* the technique ids carried by the alerts of one fetch
IdsInFetch(f) ==
    UNION {mitre_ids_from_source(f.answer.hits[j]) : j \in DOMAIN f.answer.hits}

\* the technique ids the alerts returned by the range fetches carry
IdsInFetchedAlerts == UNION {IdsInFetch(fetches[k]) : k \in DOMAIN fetches}

\* C8: in a fallback-tier report matched_techniques is the operation's
\* techniques intersected with the technique ids found in the fetched alerts,
\* the undetected list is the operation's techniques minus the matched ones,
\* and detection_rate is |matched| / |operation techniques| x 100, 0 when the
\* operation declares none.
C8_FallbackMatched ==
    IsFallbackReport =>
        LET r == report[1]
            op == Range(r.all_operation_techniques)
            matched == Range(r.matched_techniques)
        IN  /\ matched = op \cap IdsInFetchedAlerts
            /\ Range(r.undetected_techniques_list) = op \ matched
            /\ IF op = {} THEN r.detection_rate = 0
               ELSE IsRoundedPct(r.detection_rate, Cardinality(matched), Cardinality(op))

\* C9: in every fallback-tier report matched_techniques and
\* undetected_techniques_list are disjoint, their union is
\* all_operation_techniques, and detected_techniques +
\* undetected_techniques = total_techniques.
C9_FallbackPartition ==
    IsFallbackReport =>
        LET r == report[1]
            matched == Range(r.matched_techniques)
            undetected == Range(r.undetected_techniques_list)
        IN  /\ matched \cap undetected = {}
            /\ matched \cup undetected = Range(r.all_operation_techniques)
            /\ r.detected_techniques = Cardinality(matched)
            /\ r.undetected_techniques = Cardinality(undetected)
            /\ r.detected_techniques + r.undetected_techniques = r.total_techniques

\* C9 witness: a fallback-tier report with a matched and an undetected
\* technique.
C9_Witness ==
    /\ IsFallbackReport
    /\ report[1].matched_techniques = <<T1059>>
    /\ report[1].undetected_techniques_list = <<T1082>>
    /\ report[1].total_techniques = 2

\* C10: when the search of every step fails, the call ends with a
\* fallback-tier report: range fetches were issued and the report is not
\* built from the engine's results.
C10_AllSearchesFailFallback ==
    (/\ pc \in {"done", "raised"}
     /\ operation.chain # <<>>
     /\ searched = DOMAIN operation.chain
     /\ \A i \in searched : backend[i].fail)
        => /\ pc = "done"
           /\ engine_result = NoneV
           /\ fetches # <<>>
           /\ report[1].attack_steps = 0

----------------------------------------------------------------------------
(* Claims about failures and malformed documents *)

\* the answer of the alert store to the search of link i, a failure read as
\* "no hits"
AnswerOrEmpty(i) == IF backend[i].fail THEN NoAnswer ELSE backend[i]

\* C11: a failed or timed-out search gives its step match_count = 0 and
\* detected = false and does not abort correlate: every searchable step is
\* searched, every step gets the result it would get had each failing search
\* returned no hits, and correlate returns one result per step.
C11_SearchFailureIsolated ==
    /\ \A i \in DOMAIN results :
          /\ (i \in searched /\ backend[i].fail)
                => (results[i].match_count = 0 /\ ~results[i].detected)
          /\ i \in searched <=> IsSearchable(chain[i])
          /\ results[i] = IF engine = "caldera"
                          THEN LinkResult(chain[i], AnswerOrEmpty(i))
                          ELSE wz_LinkResult(chain[i], AnswerOrEmpty(i))
    /\ epc = "returned" => Len(results) = Len(chain)

\* C11 witness: the first search failed, the second step was still searched
\* and is detected.
C11_Witness ==
    /\ epc = "returned"
    /\ engine = "caldera"
    /\ Len(results) = 2
    /\ 1 \in searched /\ backend[1].fail
    /\ results[1].match_count = 0
    /\ 2 \in searched
    /\ results[2].detected

\* C12: a search the backend answered with an error or could not answer is
\* observed by its caller as a failure, never as the empty list a search
\* without alerts gives: the result of a step whose search failed differs
\* from the result the step gets when the store holds no alert for it.
C12_SearchFailureSurfaced ==
    \A i \in DOMAIN results :
        (i \in searched /\ backend[i].fail)
            => results[i] # (IF engine = "caldera"
                             THEN LinkResult(chain[i], NoAnswer)
                             ELSE wz_LinkResult(chain[i], NoAnswer))

\* what the /api/correlate handler answers once compute_coverage has ended:
\* the report, or success = false with the message of the exception
correlate_response ==
    IF pc = "raised" THEN [success |-> FALSE, result |-> NoneV]
    ELSE [success |-> TRUE, result |-> report]

\* C13: when the primary tier failed and a range fetch of the fallback tier
\* fails too, the call ends in a failure: the exception reaches the caller
\* (the API answers success = false) and no report is returned, neither a
\* partial nor a zero-filled one.
C13_BothTiersFail ==
    (\E k \in DOMAIN fetches : fetches[k].answer.fail)
        => /\ engine_result = NoneV
           /\ pc = "raised"
           /\ report = NoneV
           /\ ~correlate_response.success
           /\ correlate_response.result = NoneV

\* C13 witness: the window fetch returned an alert, the full-range fetch
\* failed: the technique found so far is not reported.
C13_Witness ==
    /\ pc = "raised"
    /\ Len(fetches) = 2
    /\ ~fetches[1].answer.fail
    /\ fetches[2].answer.fail
    /\ detected_tids # {}
    /\ report = NoneV

\* C14: every report of a call in which a range fetch was issued has
\* attack_steps = 0 and detected_steps = 0, and its detection_rate is the
\* technique-level rate |matched| / |operation techniques| x 100 (0 when the
\* operation declares no technique).
C14_FallbackNoStepCounts ==
    (report # NoneV /\ fetches # <<>>) =>
        LET r == report[1]
        IN  /\ r.attack_steps = 0
            /\ r.detected_steps = 0
            /\ IF r.total_techniques = 0 THEN r.detection_rate = 0
               ELSE IsRoundedPct(r.detection_rate, r.detected_techniques,
                                 r.total_techniques)

\* C14 witness: the engine was available, a bad timestamp sent a two-step
\* operation to the fallback tier, and the report gives one technique of
\* two with no step counted.
C14_Witness ==
    /\ report # NoneV
    /\ fetches # <<>>
    /\ engine_available
    /\ Len(operation.chain) = 2
    /\ report[1].attack_steps = 0
    /\ report[1].total_techniques = 2
    /\ report[1].detection_rate = 5000

\* C18: a raw alert with a malformed substructure returned by a range fetch
\* is absorbed: when no fetch failed, compute_coverage does not raise, the
\* other alerts of the fetch are processed and a report is returned.
C18_MalformedAlertAbsorbed ==
    (\A k \in DOMAIN fetches : ~fetches[k].answer.fail)
        => /\ pc # "raised"
           /\ report # NoneV =>
                 IdsInFetchedAlerts \subseteq Range(report[1].all_detected_techniques)

----------------------------------------------------------------------------
(* Claims about confidence, normalization and extraction *)

\* C15: the confidence of a step (in tenths) is 0.0 when no match survives,
\* otherwise 0.5, plus 0.4 when a surviving match is a direct pid match, else
\* plus 0.3 when one is a ppid match; it is one of 0.0, 0.5, 0.8, 0.9, at
\* least 0.9 with a direct pid match, and 0.5 for a detected step without
\* process id.
C15_Confidence ==
    \A i \in DOMAIN results :
        LET r == results[i]
            direct == \E k \in DOMAIN r.matches : r.matches[k].pid_match_type = "pid"
            parent == \E k \in DOMAIN r.matches : r.matches[k].pid_match_type = "ppid"
        IN  engine = "caldera" =>
              /\ r.confidence = (IF r.matches = <<>> THEN 0
                                 ELSE IF direct THEN 9
                                 ELSE IF parent THEN 8 ELSE 5)
              /\ r.confidence \in {0, 5, 8, 9}
              /\ direct => r.confidence >= 9
              /\ (~CarriesPid(chain[i]) /\ r.detected) => r.confidence = 5

\* C15 witness: a direct pid match and a ppid match survive together and the
\* step scores 0.9.
C15_Witness ==
    /\ Len(results) = 1
    /\ Len(results[1].matches) = 2
    /\ results[1].matches[1].pid_match_type = "pid"
    /\ results[1].matches[2].pid_match_type = "ppid"
    /\ results[1].confidence = 9

----------------------------------------------------------------------------
(* Technique-id normalization applied on its own *)

\* most pieces a raw id of the normalization specification is made of
MaxTokens == 3

\* the pieces raw ids are made of
Tokens ==
    {<<" ">>, <<"T">>, <<"t">>, <<"1">>, <<"x">>, TechniquePrefix,
     <<"t", "e", "c", "h", "n", "i", "q", "u", "e", "/">>}

Concat(pieces) ==
    LET F[i \in 0..Len(pieces)] ==
            IF i = 0 THEN <<>> ELSE F[i - 1] \o pieces[i]
    IN  F[Len(pieces)]

RawIds == {Concat(pieces) : pieces \in SeqsUpTo(Tokens, MaxTokens)}

\* the normalization of _mitre_ids_from_source on a set of raw ids: the set
\* of ids it keeps
normalize_ids(raw) ==
    UNION {mitre_ids_from_source([mitre |-> <<t>>]) : t \in raw}

\* neither the engine nor compute_coverage is running
ProgramIdle ==
    /\ engine = "wazuh"
    /\ chain = <<>>
    /\ backend = <<>>
    /\ results = <<>>
    /\ searched = {}
    /\ epc = "idle"
    /\ CoverageIdle
    /\ ServiceNew

\* normalize the raw id, then what the normalization returned
normalize_call ==
    /\ arg # NoneV
    /\ Len(ret) < 2
    /\ ret' = Append(ret, normalize_ids(IF ret = <<>> THEN {arg[1]} ELSE ret[Len(ret)]))
    /\ UNCHANGED arg
    /\ UNCHANGED engineVars
    /\ UNCHANGED authVars
    /\ UNCHANGED coverageVars

InitNormalize ==
    /\ ProgramIdle
    /\ arg \in {Some(t) : t \in RawIds}
    /\ ret = <<>>

SpecNormalize == InitNormalize /\ [][normalize_call]_vars

\* C16: technique-id normalization is idempotent: for every raw id,
\* normalizing the output of the normalization gives that same output.
C16_NormalizeIdempotent ==
    Len(ret) = 2 => ret[2] = ret[1]

----------------------------------------------------------------------------
(* IntegrationEngine._summarize_hit (Caldera plugin) on raw hits *)

\* A node of a raw hit says what it is: "dict", "str" (any value that is
\* not an object) or "absent"; the fields of a node that is not a dict are
\* never read.
MitreNodes ==
    [kind : {"absent", "str"}, id : {<<>>}]
        \cup [kind : {"dict", "list"}, id : {<<T1059>>}]

RuleNodes ==
    [kind : {"absent", "str"}, id : {NoneV}, mitre : {[kind |-> "absent", id |-> <<>>]}]
        \cup [kind : {"dict"}, id : {Some("5715")}, mitre : MitreNodes]

AuditNodes ==
    [kind : {"absent", "str"}, pid : {NoneV}]
        \cup [kind : {"dict"}, pid : {Some("100")}]

DataNodes ==
    [kind : {"absent", "str"}, mitre : {[kind |-> "absent", id |-> <<>>]},
     audit : {[kind |-> "absent", pid |-> NoneV]}]
        \cup [kind : {"dict"},
              mitre : {[kind |-> "absent", id |-> <<>>], [kind |-> "dict", id |-> <<T1082>>]},
              audit : AuditNodes]

AgentNodes ==
    [kind : {"absent", "str"}, name : {NoneV}]
        \cup [kind : {"dict"}, name : {Some("agent-1")}]

AbsentSource ==
    [ts |-> NoneV,
     rule |-> [kind |-> "absent", id |-> NoneV, mitre |-> [kind |-> "absent", id |-> <<>>]],
     data |-> [kind |-> "absent", mitre |-> [kind |-> "absent", id |-> <<>>],
               audit |-> [kind |-> "absent", pid |-> NoneV]],
     agent |-> [kind |-> "absent", name |-> NoneV]]

\* the hits handed to _summarize_hit: something that is not a dict, a dict
\* whose '_source' is absent or not a dict, and every document built from
\* the nodes above
RawHits ==
    {[kind |-> "other", source_kind |-> "absent", source |-> AbsentSource],
     [kind |-> "dict", source_kind |-> "absent", source |-> AbsentSource],
     [kind |-> "dict", source_kind |-> "str", source |-> AbsentSource]}
        \cup [kind : {"dict"}, source_kind : {"dict"},
              source : [ts : {NoneV, Some(1)}, rule : RuleNodes, data : DataNodes,
                        agent : AgentNodes]]

\* the {} _summarize_hit returns for a non-document
EmptyRecord ==
    [kind |-> "empty", ts |-> NoneV, rule_id |-> NoneV, mitre_id |-> <<>>,
     agent_name |-> NoneV, pid |-> NoneV]

\* an exception leaves the body of _summarize_hit
RaisedRecord == [EmptyRecord EXCEPT !.kind = "raised"]

\* _extract_mitre_id: the first element of the first non-empty list
extract_mitre_id(values) ==
    LET ok == {i \in DOMAIN values : values[i] # <<>>}
    IN  IF ok = {} THEN <<>>
        ELSE values[CHOOSE i \in ok : \A j \in ok : i <= j][1]

\* lines 421-513, the body of the try: src.get raises when '_source' is
\* neither a dict nor falsy
summarize_body(hit) ==
    IF hit.kind # "dict" THEN EmptyRecord
    ELSE IF hit.source_kind = "str" THEN RaisedRecord
    ELSE LET src == hit.source
             rule_ok == src.rule.kind = "dict"
             data_ok == src.data.kind = "dict"
             data_mitre == IF data_ok /\ src.data.mitre.kind = "dict"
                           THEN src.data.mitre.id ELSE <<>>
             rule_mitre == IF rule_ok /\ src.rule.mitre.kind \in {"dict", "list"}
                           THEN src.rule.mitre.id ELSE <<>>
         IN  [kind |-> "record",
              ts |-> src.ts,
              rule_id |-> IF rule_ok THEN src.rule.id ELSE NoneV,
              mitre_id |-> extract_mitre_id(<<data_mitre, rule_mitre>>),
              agent_name |-> IF src.agent.kind = "dict" THEN src.agent.name ELSE NoneV,
              pid |-> IF data_ok /\ src.data.audit.kind = "dict"
                      THEN src.data.audit.pid ELSE NoneV]

\* summarize_raw_hit without the try around its body
summarize_raw_hit_unguarded(hit) == summarize_body(hit)

\* _summarize_hit: "except Exception: return {}"
summarize_raw_hit(hit) ==
    IF summarize_body(hit).kind = "raised" THEN EmptyRecord ELSE summarize_body(hit)

summarize_call ==
    /\ arg # NoneV
    /\ ret = <<>>
    /\ ret' = <<summarize_raw_hit(arg[1])>>
    /\ UNCHANGED arg
    /\ UNCHANGED engineVars
    /\ UNCHANGED authVars
    /\ UNCHANGED coverageVars

InitExtract ==
    /\ ProgramIdle
    /\ arg \in {Some(h) : h \in RawHits}
    /\ ret = <<>>

SpecExtract == InitExtract /\ [][summarize_call]_vars

\* the hit is a document: a dict whose '_source' is a dict or absent
IsDocument(hit) == hit.kind = "dict" /\ hit.source_kind # "str"

\* C17: _summarize_hit never raises: for a document it returns a record whose
\* fields under a node that is not an object are None while the fields under
\* the other nodes are still extracted; for a non-document it returns the
\* empty record.
C17_SummarizeNeverRaises ==
    ret # <<>> =>
        LET r == ret[1]
            hit == arg[1]
            src == hit.source
        IN  /\ r.kind # "raised"
            /\ ~IsDocument(hit) => r = EmptyRecord
            /\ IsDocument(hit) =>
                  /\ r.kind = "record"
                  /\ r.ts = src.ts
                  /\ r.rule_id = (IF src.rule.kind = "dict" THEN src.rule.id ELSE NoneV)
                  /\ r.agent_name = (IF src.agent.kind = "dict" THEN src.agent.name
                                     ELSE NoneV)
                  /\ r.pid = (IF src.data.kind = "dict" /\ src.data.audit.kind = "dict"
                              THEN src.data.audit.pid ELSE NoneV)
                  /\ (src.rule.kind # "dict" /\ src.data.kind # "dict") => r.mitre_id = <<>>
                  /\ (src.rule.kind # "dict" /\ src.data.kind = "dict"
                        /\ src.data.mitre.kind = "dict") => r.mitre_id = T1082
                  /\ (src.data.kind # "dict" /\ src.rule.kind = "dict"
                        /\ src.rule.mitre.kind \in {"dict", "list"}) => r.mitre_id = T1059

\* C17 witness: rule is a string; timestamp, technique (from data.mitre),
\* agent name and pid are extracted all the same.
C17_Witness ==
    /\ ret # <<>>
    /\ arg[1].kind = "dict"
    /\ arg[1].source.rule.kind = "str"
    /\ ret[1].kind = "record"
    /\ ret[1].rule_id = NoneV
    /\ ret[1].ts = Some(1)
    /\ ret[1].mitre_id = T1082
    /\ ret[1].agent_name = Some("agent-1")
    /\ ret[1].pid = Some("100")

----------------------------------------------------------------------------
(* Claims about ownership and about the representative alerts *)

\* C19: compute_coverage never changes its inputs: the operation and the raw
\* alert documents handed over by the range fetches are, after the call
\* (returned or raised), what the alert store answered; a lower-cased agent
\* name exists only in the new records.
C19_InputsUnchanged ==
    \A k \in DOMAIN fetches : fetches[k].answer = store[k]

\* the record alerts_matched holds for a raw alert document matched by a
\* step of technique tech
MatchedRecord(doc, tech) == prepare_alert(wz_summarize_hit(doc), tech).record

\* the raw alert documents the search of step i matched
MatchedDocs(i) ==
    IF i \in searched THEN Range(AnswerOrEmpty(i).hits) ELSE {}

\* how often a record is listed in the report's alerts_matched
Occurrences(rec) ==
    Cardinality({p \in DOMAIN report[1].alerts_matched :
                    report[1].alerts_matched[p] = rec})

\* C20: in a primary-tier report an alert document matched by several steps
\* of the operation is listed at most once in alerts_matched.
C20_AlertListedOnce ==
    IsPrimaryReport =>
        \A i, j \in DOMAIN chain :
            (i # j) =>
                \A doc \in MatchedDocs(i) \cap MatchedDocs(j) :
                    Occurrences(MatchedRecord(doc, chain[i].technique_id)) <= 1

----------------------------------------------------------------------------
(* compute_coverage._store_representative, call after call *)

\* most representative alerts held in the store specification
MaxStored == 3

\* the alerts handed to _store_representative
StoreDocs ==
    {[ts |-> Some(1), mitre |-> <<>>],
     [ts |-> Some(1), mitre |-> <<T1059>>],
     [ts |-> Some(2), mitre |-> <<T1059>>]}

\* key_hint: '' or the key of step 1
StoreHints == {NoneV, Some(LinkKey(1))}

\* fallback_tid: None or the technique of the step or window
StoreFallbackTids == {NoneV, T1082}

\* one call _store_representative(alert, key_hint=..., fallback_tid=...)
store_call ==
    \E alert \in StoreDocs, key_hint \in StoreHints, fallback_tid \in StoreFallbackTids :
        LET acc == store_representative([reps |-> representative_alerts,
                                         tids |-> detected_tids],
                                        alert, key_hint, fallback_tid)
        IN  /\ Len(acc.reps) <= MaxStored
            /\ representative_alerts' = acc.reps
            /\ detected_tids' = acc.tids
            /\ arg' = Some([alert |-> alert, key_hint |-> key_hint,
                            fallback_tid |-> fallback_tid])
            /\ UNCHANGED ret
            /\ UNCHANGED engineVars
            /\ UNCHANGED authVars
            /\ UNCHANGED <<operation, engine_available, store, pc, engine_result,
                           counters, fetches, report>>

InitStore == ProgramIdle /\ NoCall

SpecStore == InitStore /\ [][store_call]_vars

\* no two representative alerts share a key
KeysDistinct ==
    \A i, j \in DOMAIN representative_alerts :
        representative_alerts[i].key = representative_alerts[j].key => i = j

\* the key of a call in a store that holds n alerts: the step's key when the
\* alert comes from a step with a link id, else the record's sorted technique
\* ids joined, else the position
ClaimedKey(call, n) ==
    LET ids == prepare_alert(call.alert, call.fallback_tid).record.technique_ids
    IN  IF call.key_hint # NoneV THEN call.key_hint[1]
        ELSE IF ids # <<>> THEN TechKey(ids)
        ELSE AlertKey(n)

\* a call leaves every stored alert as it is, and adds its alert under its
\* key exactly when the key is new
StoreStep ==
    LET call == arg'[1]
        key == ClaimedKey(call, Len(representative_alerts))
        known == \E i \in DOMAIN representative_alerts :
                    representative_alerts[i].key = key
    IN  IF known THEN representative_alerts' = representative_alerts
        ELSE representative_alerts' =
                Append(representative_alerts,
                       [key |-> key,
                        record |-> prepare_alert(call.alert, call.fallback_tid).record])

\* C21: after any sequence of _store_representative calls the store holds at
\* most one alert per key, the key being link:<link_id> for an alert of a
\* step with a link id, else the sorted technique ids joined, else a
\* positional key; the first alert stored under a key is kept and a later
\* alert with that key never replaces it.
C21_RepresentativeStore == []KeysDistinct /\ [][StoreStep]_vars

\* C21 witness: the store holds a step's alert, a technique-keyed alert and a
\* positional one, and the last call brought a different alert under the
\* step's key, which was not taken.
C21_Witness ==
    /\ arg # NoneV
    /\ Len(representative_alerts) = 3
    /\ representative_alerts[1].key = LinkKey(1)
    /\ representative_alerts[2].key.kind = "tech"
    /\ representative_alerts[3].key = AlertKey(2)
    /\ arg[1].key_hint = Some(LinkKey(1))
    /\ arg[1].alert.ts # representative_alerts[1].record.ts

----------------------------------------------------------------------------
(* Technique ids of one alert document, on the two paths of compute_coverage *)

\* what one path of a document holds: nothing, one id, or a list of two
IdLists == {<<>>, <<T1059>>, <<T1082>>, <<T1059, T1082>>}

\* alert documents with ids at any of the five paths
IdDocs ==
    [ts : {Some(1)}, mitre : IdLists, data_mitre : IdLists, flat_data : IdLists,
     flat_rule : IdLists, mitre_id : IdLists]

\* fallback tier: _prepare_alert reads the raw alert of a range fetch
extract_raw_call ==
    /\ arg # NoneV
    /\ \A i \in DOMAIN ret : ret[i].path # "fallback"
    /\ ret' = Append(ret, [path |-> "fallback",
                           ids |-> mitre_ids_from_source(arg[1])])
    /\ UNCHANGED arg
    /\ UNCHANGED engineVars
    /\ UNCHANGED authVars
    /\ UNCHANGED coverageVars

\* primary tier: _prepare_alert reads the record _summarize_hit made of the hit
extract_summarized_call ==
    /\ arg # NoneV
    /\ \A i \in DOMAIN ret : ret[i].path # "primary"
    /\ ret' = Append(ret, [path |-> "primary",
                           ids |-> mitre_ids_from_source(wz_summarize_hit(arg[1]))])
    /\ UNCHANGED arg
    /\ UNCHANGED engineVars
    /\ UNCHANGED authVars
    /\ UNCHANGED coverageVars

NextIds == extract_raw_call \/ extract_summarized_call

InitIds ==
    /\ ProgramIdle
    /\ arg \in {Some(doc) : doc \in IdDocs}
    /\ ret = <<>>

SpecIds == InitIds /\ [][NextIds]_vars

\* the normalized ids found at any of the five paths of a document
IdsAtEveryPath(doc) ==
    normalize_ids(Range(doc.data_mitre) \cup Range(doc.mitre) \cup Range(doc.flat_data)
                     \cup Range(doc.flat_rule) \cup Range(doc.mitre_id))

\* C22: the technique ids extracted from an alert document are the union of
\* the values at every known path, every element of a list included, on the
\* primary path as well as on the fallback path.
C22_UnionOfPaths ==
    \A i \in DOMAIN ret : ret[i].ids = IdsAtEveryPath(arg[1])

----------------------------------------------------------------------------
(* Claims about the operation's techniques and the fallback tier *)

\* the technique ids the chain of the operation declares, as written
DeclaredIds ==
    {operation.chain[i].technique_id :
        i \in {j \in DOMAIN operation.chain : operation.chain[j].technique_id # <<>>}}

\* C23: the report's operation techniques are the union of the normalized
\* technique id of every chain step, normalized as the alert ids are (trim,
\* upper case, first character T, TECHNIQUE/ removed).
C23_OperationTechniquesNormalized ==
    report # NoneV =>
        Range(report[1].all_operation_techniques) = normalize_ids(DeclaredIds)

----------------------------------------------------------------------------
(* Claims about the order of a step's matches *)

\* C24: after the PID tightening the matches of a step are ordered: every
\* direct pid match before every ppid match, and by ascending timestamp
\* within each of the two groups.
C24_MatchesOrdered ==
    \A i \in DOMAIN results :
        LET ms == results[i].matches
        IN  CarriesPid(chain[i]) =>
                \A p, q \in DOMAIN ms :
                    /\ (ms[p].pid_match_type = "pid" /\ ms[q].pid_match_type = "ppid")
                           => p < q
                    /\ (/\ p < q
                        /\ ms[p].pid_match_type = ms[q].pid_match_type
                        /\ ms[p].ts # NoneV
                        /\ ms[q].ts # NoneV)
                           => ms[p].ts[1] <= ms[q].ts[1]

\* C24 witness: the search answered with a ppid match stamped earlier than
\* the direct pid match that follows it, and the result lists the direct pid
\* match first.
C24_Witness ==
    /\ results # <<>>
    /\ CarriesPid(chain[1])
    /\ Len(results[1].matches) = 2
    /\ results[1].matches[1].pid_match_type = "pid"
    /\ results[1].matches[2].pid_match_type = "ppid"
    /\ results[1].matches[2].ts # NoneV
    /\ results[1].matches[1].ts # NoneV
    /\ results[1].matches[2].ts[1] < results[1].matches[1].ts[1]
    /\ backend[1].hits[1].pid # backend[1].hits[2].pid
    /\ backend[1].hits[2].pid = Some(str(chain[1].pid[1]))

----------------------------------------------------------------------------
(* Claims about the range fetches of the fallback tier *)

\* the range fetches of a fallback run, in order: one per match window, then
\* the one over the whole operation
ExpectedFetches ==
    [k \in 1..(Len(operation.hints) + 1) |->
        IF k <= Len(operation.hints)
        THEN [kind |-> "window", tech |-> operation.hints[k]]
        ELSE [kind |-> "range", tech |-> NoneV]]

----------------------------------------------------------------------------
(* IntegrationEngine._build_query of the two engines, and the indexer *)

\* the instants of the model run from 0 to MaxTime
MaxTime == 4

\* time_window_sec, in the model's unit
MaxWindow == 1

T1059_001 == T1059 \o <<".", "0", "0", "1">>

\* rule_mitre_mapping handed to the Caldera engine: rule id -> technique
rule_mitre_mapping == [r \in {<<"9", "2", "0", "0", "0">>} |-> T1059]

\* technique_to_rules[technique_id], no entry read as no rule
technique_to_rules(technique_id) ==
    {r \in DOMAIN rule_mitre_mapping : rule_mitre_mapping[r] = technique_id}

\* f and f + '.keyword'
WithKeyword(fields) == fields \cup {f \o ".keyword" : f \in fields}

\* _build_query of the Caldera plugin: both timestamp fields, term clauses
\* on the technique fields and on the mapped rule ids, two wildcard clauses
build_query(technique_id, center_ts, window_sec) ==
    [time_fields |-> {"@timestamp", "timestamp"},
     gte |-> center_ts - window_sec,
     lte |-> center_ts + window_sec,
     terms |-> {[field |-> f, value |-> technique_id] :
                   f \in WithKeyword({"data.mitre.id", "rule.mitre.id", "mitre.id",
                                      "rule.mitre.technique"})}
               \cup {[field |-> f, value |-> r] :
                        f \in {"rule.id", "rule.id.keyword"},
                        r \in technique_to_rules(technique_id)},
     wildcards |-> {[field |-> f, infix |-> technique_id] :
                       f \in {"data.mitre.id", "rule.mitre.id"}}]

\* _build_query of the Wazuh application: '@timestamp' only, term clauses on
\* rule.mitre.id and mitre.id
wz_build_query(technique_id, center_ts, window_sec) ==
    [time_fields |-> {"@timestamp"},
     gte |-> center_ts - window_sec,
     lte |-> center_ts + window_sec,
     terms |-> {[field |-> f, value |-> technique_id] :
                   f \in WithKeyword({"rule.mitre.id", "mitre.id"})},
     wildcards |-> {}]

\* the values an alert document holds at a field of the index
FieldValues(doc, field) ==
    IF field \in {"rule.mitre.id", "rule.mitre.id.keyword"} THEN Range(doc.rule_mitre)
    ELSE IF field \in {"data.mitre.id", "data.mitre.id.keyword"} THEN Range(doc.data_mitre)
    ELSE IF field \in {"rule.id", "rule.id.keyword"} THEN Range(doc.rule_id)
    ELSE IF field = "@timestamp" THEN Range(doc.ts_at)
    ELSE IF field = "timestamp" THEN Range(doc.ts_plain)
    ELSE {}

\* sub occurs in s
Contains(s, sub) ==
    \E k \in 1..(Len(s) - Len(sub) + 1) : SubSeq(s, k, k + Len(sub) - 1) = sub

\* client.search: the indexer's reading of the bool query, the time clauses
\* as a filter with minimum_should_match 1, the technique clauses as should
\* with minimum_should_match 1
Satisfies(doc, query) ==
    /\ \E f \in query.time_fields :
          \E t \in FieldValues(doc, f) : query.gte <= t /\ t <= query.lte
    /\ \/ \E c \in query.terms : c.value \in FieldValues(doc, c.field)
       \/ \E c \in query.wildcards :
             \E v \in FieldValues(doc, c.field) : Contains(v, c.infix)

OptTimes == {NoneV} \cup {Some(t) : t \in 0..MaxTime}

\* alert documents of the index: '@timestamp', 'timestamp', rule.mitre.id,
\* data.mitre.id and rule.id
QueryDocs ==
    [ts_at : OptTimes, ts_plain : OptTimes,
     rule_mitre : {<<>>, <<T1059>>, <<T1059_001>>, <<T1082>>},
     data_mitre : {<<>>, <<T1059>>},
     rule_id : {NoneV, Some(<<"9", "2", "0", "0", "0">>)}]

\* the search a step of technique T1059 makes around center_ts
QueryCalls ==
    [technique_id : {T1059}, center_ts : {MaxWindow + 1}, window_sec : 1..MaxWindow,
     doc : QueryDocs]

\* the Caldera engine's query, put to the indexer
build_query_call ==
    /\ arg # NoneV
    /\ \A i \in DOMAIN ret : ret[i].engine # "caldera"
    /\ LET c == arg[1]
       IN  ret' = Append(ret, [engine |-> "caldera",
                               matched |-> Satisfies(c.doc,
                                   build_query(c.technique_id, c.center_ts, c.window_sec))])
    /\ UNCHANGED arg
    /\ UNCHANGED engineVars
    /\ UNCHANGED authVars
    /\ UNCHANGED coverageVars

\* the Wazuh application engine's query, put to the indexer
wz_build_query_call ==
    /\ arg # NoneV
    /\ \A i \in DOMAIN ret : ret[i].engine # "wazuh"
    /\ LET c == arg[1]
       IN  ret' = Append(ret, [engine |-> "wazuh",
                               matched |-> Satisfies(c.doc,
                                   wz_build_query(c.technique_id, c.center_ts, c.window_sec))])
    /\ UNCHANGED arg
    /\ UNCHANGED engineVars
    /\ UNCHANGED authVars
    /\ UNCHANGED coverageVars

NextQuery == build_query_call \/ wz_build_query_call

InitQuery ==
    /\ ProgramIdle
    /\ arg \in {Some(c) : c \in QueryCalls}
    /\ ret = <<>>

SpecQuery == InitQuery /\ [][NextQuery]_vars

\* one of the document's two timestamps lies in [center - window, center + window]
InWindow(c) ==
    \E t \in Range(c.doc.ts_at) \cup Range(c.doc.ts_plain) :
        c.center_ts - c.window_sec <= t /\ t <= c.center_ts + c.window_sec

\* a technique clause matches: the exact id at a technique field, a rule id
\* mapped to the technique, or an id that contains the technique id
TechniqueClause(c) ==
    LET ids == Range(c.doc.rule_mitre) \cup Range(c.doc.data_mitre)
    IN  \/ c.technique_id \in ids
        \/ \E r \in Range(c.doc.rule_id) :
              r \in DOMAIN rule_mitre_mapping /\ rule_mitre_mapping[r] = c.technique_id
        \/ \E v \in ids : Contains(v, c.technique_id)

\* C26: a document satisfies the query built for (technique, center, window)
\* exactly when '@timestamp' or 'timestamp' lies in the inclusive window and
\* a technique clause matches; an alert with only 'timestamp' in the window
\* is matched.
C26_QueryMatches ==
    \A i \in DOMAIN ret : ret[i].matched = (InWindow(arg[1]) /\ TechniqueClause(arg[1]))

----------------------------------------------------------------------------
(* IntegrationEngine.correlate with the search of a link in flight *)

\* run_in_executor for every searchable link that is left, without awaiting
\* the search before
search_submit_without_await ==
    /\ epc = "running"
    /\ \E idx \in (Len(results) + 1)..Len(chain) :
          /\ IsSearchable(chain[idx])
          /\ idx \notin searched
          /\ searched' = searched \cup {idx}
    /\ UNCHANGED <<engine, chain, backend, results, epc>>
    /\ UNCHANGED coverageVars
    /\ UNCHANGED fnVars
    /\ UNCHANGED authVars

\* "loop.run_in_executor(None, self._search, technique_id, ts_epoch)" for
\* the link the loop is at: the search is handed to the executor
search_submit ==
    /\ epc = "running"
    /\ Len(results) < Len(chain)
    /\ LET idx == Len(results) + 1
       IN  /\ IsSearchable(chain[idx])
           /\ idx \notin searched
           /\ searched' = searched \cup {idx}
    /\ UNCHANGED <<engine, chain, backend, results, epc>>
    /\ UNCHANGED coverageVars
    /\ UNCHANGED fnVars
    /\ UNCHANGED authVars

\* the await returns, whenever the search ends, and the link's result is
\* appended; a link that is not searchable gets its result at once
link_complete ==
    /\ epc = "running"
    /\ Len(results) < Len(chain)
    /\ LET idx == Len(results) + 1
           link == chain[idx]
       IN  /\ IsSearchable(link) => idx \in searched
           /\ results' = Append(results,
                 IF engine = "caldera" THEN LinkResult(link, backend[idx])
                 ELSE wz_LinkResult(link, backend[idx]))
    /\ UNCHANGED <<engine, chain, backend, searched, epc>>
    /\ UNCHANGED coverageVars
    /\ UNCHANGED fnVars
    /\ UNCHANGED authVars

NextAwait == search_submit \/ link_complete \/ correlate_return

SpecAwait == InitChain /\ [][NextAwait]_vars

\* the searches handed to the executor that have not ended
InFlight == {i \in searched : i > Len(results)}

\* C27: correlate returns one result per chain entry, in chain order,
\* whenever the searches end and whether they fail; the result of a step is
\* made of its own link and its own answer; at most one search is in flight.
C27_OneResultPerEntry ==
    /\ Cardinality(InFlight) <= 1
    /\ Len(results) <= Len(chain)
    /\ \A i \in DOMAIN results :
          /\ results[i].link_id = chain[i].id
          /\ results[i] = IF engine = "caldera"
                          THEN LinkResult(chain[i], backend[i])
                          ELSE wz_LinkResult(chain[i], backend[i])
    /\ epc = "returned" => Len(results) = Len(chain)

\* C27 witness: the search of the second of two links is in flight after the
\* first one failed and got its result.
C27_Witness ==
    /\ epc = "running"
    /\ Len(chain) = 2
    /\ Len(results) = 1
    /\ backend[1].fail
    /\ 1 \in searched
    /\ InFlight = {2}

----------------------------------------------------------------------------
(* Claims about what counts as detected, and about the counters *)

\* C28: in the fallback tier a technique is in the detected set only if a
\* fetched alert carries that technique id itself; an alert without a
\* technique id makes no technique detected, with or without hints.
C28_DetectedCarriedByAlert ==
    (report # NoneV /\ engine_result = NoneV) =>
        /\ Range(report[1].all_detected_techniques) \subseteq IdsInFetchedAlerts
        /\ Range(report[1].matched_techniques) \subseteq IdsInFetchedAlerts

\* C29: the counters of a primary-tier report are consistent:
\* total_alerts <= detected_steps <= attack_steps and
\* detected_steps <= total_matches.
C29_CountersConsistent ==
    IsPrimaryReport =>
        /\ report[1].total_alerts <= report[1].detected_steps
        /\ report[1].detected_steps <= report[1].attack_steps
        /\ report[1].detected_steps <= report[1].total_matches

\* C29 witness: three steps, two of them detected with three matches in
\* all, and one representative alert for each detected step.
C29_Witness ==
    /\ IsPrimaryReport
    /\ report[1].attack_steps = 3
    /\ report[1].detected_steps = 2
    /\ report[1].total_matches = 3
    /\ report[1].total_alerts = 2

----------------------------------------------------------------------------
(* BASTIONService: authenticate and _ensure_authenticated *)

\* the clock of the model stops at MaxClock minutes
MaxClock == 20

\* "timedelta(minutes=15)"
TokenLifetime == 15

\* time passes between two calls
tick ==
    /\ utcnow < MaxClock
    /\ utcnow' = utcnow + 1
    /\ UNCHANGED <<service, last_call>>
    /\ UNCHANGED engineVars
    /\ UNCHANGED coverageVars
    /\ UNCHANGED fnVars

\* authenticate() answered with HTTP 200
authenticated(at) ==
    [token |-> Some("jwt"),
     token_expiry |-> Some(at + TokenLifetime),
     is_authenticated |-> TRUE]

\* _ensure_authenticated: authenticate() when there is no token or the token
\* has expired; authenticate() sets the three fields on HTTP 200 and raises
\* otherwise, leaving them as they are
ensure_authenticated ==
    /\ \E http_200 \in BOOLEAN :
          LET expired == /\ service.token_expiry # NoneV
                         /\ utcnow >= service.token_expiry[1]
              calls == service.token = NoneV \/ service.token_expiry = NoneV \/ expired
          IN  /\ service' = IF calls /\ http_200 THEN authenticated(utcnow) ELSE service
              /\ last_call' = Some([at |-> utcnow, raised |-> calls /\ ~http_200])
    /\ UNCHANGED utcnow
    /\ UNCHANGED engineVars
    /\ UNCHANGED coverageVars
    /\ UNCHANGED fnVars

NextAuth == tick \/ ensure_authenticated

InitAuth == ProgramIdle /\ NoCall

SpecAuth == InitAuth /\ [][NextAuth]_vars

\* the service holds a token whose expiry had not passed at the last call
HoldsValidToken ==
    /\ service.token # NoneV
    /\ service.token_expiry # NoneV
    /\ last_call[1].at < service.token_expiry[1]

\* C30: after any sequence of _ensure_authenticated calls is_authenticated
\* is true exactly when the service holds a token that had not expired at
\* the last call; a failed re-authentication of an expired token leaves
\* is_authenticated false.
C30_AuthenticatedIffValidToken ==
    last_call # NoneV => (service.is_authenticated <=> HoldsValidToken)

====
